---- MODULE Spec2Model ----
(***************************************************************************)
(* Ticker-symbol resolution of the FinOS quote endpoints, the market        *)
(* context cache, the resumable data collection engine, the dataset        *)
(* preparation and the two script runners.                                 *)
(*                                                                         *)
(*   src/finos-app/api/index.py        load_ticker_map, get_quote,         *)
(*                                     get_market_context                  *)
(*   src/tenali-llm/deployment/api.py  load_ticker_map, get_quote          *)
(*   src/tenali-llm/data_collection/production_historical_data.py          *)
(*                                     TenaliDataEngine                    *)
(*   src/tenali-llm/training/prepare_dataset.py                            *)
(*                                     create_instruction_dataset          *)
(*   src/tenali-llm/train_tenali.py    run_step, main                      *)
(*   src/tenali-llm/data_collection/run_supplementary.py  run_script       *)
(*                                                                         *)
(* Each program has its own specification (Spec, SpecDeploy, SpecEngine,   *)
(* SpecMarket, SpecPrepare, SpecTrain, SpecSupp); the variables of the     *)
(* other programs stay at their initial values.                            *)
(*                                                                         *)
(* Python str values are TLA+ strings (TLC treats a string as the sequence *)
(* of its one-character strings: Len, SubSeq and \o apply).  A dict is the *)
(* sequence of its <<key, value>> items in insertion order; a list is a    *)
(* sequence.                                                               *)
(***************************************************************************)
EXTENDS Integers, Sequences, FiniteSets, TLC

VARIABLES
  TICKER_MAP,    \* module global: dict alias -> trading symbol
  TICKER_NAMES,  \* module global: list of aliases
  pc,            \* "import": deployment/api.py is still executing its module body
                 \* "serving": the app waits for a request
                 \* "responding": get_quote has run, its response is on its way
  loadResult,    \* how the last load_ticker_map call ended:
                 \* "none" | "skipped" | "exception" | "non200" | "loaded"
  preMap,        \* TICKER_MAP when that call started
  preNames,      \* TICKER_NAMES when that call started
  raw,           \* request.symbol of the last quote request
  query,         \* its normalized form
  symbol,        \* the symbol its resolution steps produced
  stage,         \* which lookup set symbol: "exact" | "prefix" | "fuzzy" | "crypto" | "none"
  probe,         \* the verification probe: "notissued" | "price" | "noprice" | "exception"
  raised,        \* an exception left the resolution steps
  status,        \* HTTP status of the response: 200 | 404 (0: no request yet)
  fetched,       \* what the listing download of the load_ticker_map call gave
                 \* (a local of that call: NoFetch outside a request)
  \* production_historical_data.py
  progressFile,      \* collection_progress.json: the set of symbols it lists
                     \* (no file reads as the empty set), or Torn
  corpusFile,        \* tenali_market_corpus.jsonl: the symbols of its lines, in order
  epc,               \* where the engine process is: "off" | "constructed" | "loop"
                     \* | "batch" | "batch_saved" | "final" | "final_saved" | "done"
  processed_symbols, \* self.processed_symbols
  to_process,        \* the symbols the loop of run() has still to visit
  batch_data,        \* the symbols of the examples in batch_data
  runs,              \* how many times the engine has been started
  startProgress,     \* what load_progress() returned at the start-ups so far
  fetchedInRun,      \* the symbols fetch_history was called with in this run
  \* get_market_context of index.py
  market_cache,  \* module global: [data, timestamp]
  clock,         \* what time.time() returns, in seconds
  context,       \* what the last get_market_context() call returned
  called,        \* how that call went: "none" (no call yet) | "cached" | "refreshed" | "stale"
  calledAt,      \* current_time of that call
  cacheBefore,   \* market_cache when that call started
  hists,         \* what the ticker history fetches of that call gave
  \* train_tenali.py and run_supplementary.py
  program,       \* which runner is executing: "none" | "train_tenali" | "run_supplementary"
  rpc,           \* where the runner is: "off" | "main" | "popen" | "stream" | "wait"
                 \* | "finished" | "aborted"
  step,          \* the step (collector) main has reached: 0 before the first
  results,       \* per step: "pending" | "skipped" | "ok" | "failed"
  launched,      \* the steps subprocess.Popen started a process for, in order
  alive,         \* the steps whose process has not exited
  overlapped,    \* the steps that were started while an earlier process was alive
  outLeft,       \* stdout lines the current child still has to write
  errLeft,       \* stderr chunks the current child still has to write
  errPipe,       \* chunks sitting unread in the child's stderr pipe
  cstate,        \* the current child: "none" | "running" | "exited"
  ccode,         \* its exit code
  \* prepare_dataset.py
  ppc,              \* "idle" | "loaded" | "created"
  data,             \* what load_all_data() returned
  instruction_data  \* what create_instruction_dataset(data) returned

quoteVars ==
  << TICKER_MAP, TICKER_NAMES, pc, loadResult, preMap, preNames,
     raw, query, symbol, stage, probe, raised, status, fetched >>

engineVars ==
  << progressFile, corpusFile, epc, processed_symbols, to_process, batch_data,
     runs, startProgress, fetchedInRun >>

marketVars == << market_cache, clock, context, called, calledAt, cacheBefore, hists >>

runnerVars ==
  << program, rpc, step, results, launched, alive, overlapped,
     outLeft, errLeft, errPipe, cstate, ccode >>

prepVars == << ppc, data, instruction_data >>

toolVars == << runnerVars, prepVars >>

vars == << quoteVars, engineVars, marketVars, toolVars >>

---------------------------------------------------------------------------
(* Python str primitives                                                   *)

\* Characters in code-point order (str comparison is by code point).
CodePoints == " &-.0123456789=ABCDEFGHIJKLMNOPQRSTUVWXYZ^abcdefghijklmnopqrstuvwxyz"

LowerCase == "abcdefghijklmnopqrstuvwxyz"

UpperCase == "ABCDEFGHIJKLMNOPQRSTUVWXYZ"

Char(s, i) == SubSeq(s, i, i)

IndexIn(str, c) ==
  IF \E i \in 1..Len(str) : Char(str, i) = c
  THEN CHOOSE i \in 1..Len(str) : Char(str, i) = c
  ELSE 0

Ord(c) == IndexIn(CodePoints, c)

UpperChar(c) ==
  IF IndexIn(LowerCase, c) > 0 THEN Char(UpperCase, IndexIn(LowerCase, c)) ELSE c

RECURSIVE Upper(_)
\* str.upper()
Upper(s) == IF s = "" THEN "" ELSE UpperChar(Char(s, 1)) \o Upper(Tail(s))

IsSpace(c) == c = " "

RECURSIVE LStrip(_)
LStrip(s) == IF s # "" /\ IsSpace(Char(s, 1)) THEN LStrip(Tail(s)) ELSE s

RECURSIVE RStrip(_)
RStrip(s) ==
  IF s # "" /\ IsSpace(Char(s, Len(s))) THEN RStrip(SubSeq(s, 1, Len(s) - 1)) ELSE s

\* str.strip()
Strip(s) == RStrip(LStrip(s))

\* str.isalpha(): non-empty and every character a letter
IsAlpha(s) ==
  /\ s # ""
  /\ \A i \in 1..Len(s) :
       IndexIn(UpperCase, Char(s, i)) > 0 \/ IndexIn(LowerCase, Char(s, i)) > 0

\* k.startswith(q)
StartsWith(k, q) == Len(q) <= Len(k) /\ SubSeq(k, 1, Len(q)) = q

\* s.endswith(x)
EndsWith(s, x) == Len(x) <= Len(s) /\ SubSeq(s, Len(s) - Len(x) + 1, Len(s)) = x

\* x in s  (substring test)
Contains(s, x) == \E i \in 1..(Len(s) - Len(x) + 1) : SubSeq(s, i, i + Len(x) - 1) = x

RECURSIVE FirstWordEnd(_, _)
\* index of the last character of the run of non-space characters starting at i
FirstWordEnd(s, i) ==
  IF i < Len(s) /\ ~IsSpace(Char(s, i + 1)) THEN FirstWordEnd(s, i + 1) ELSE i

\* s.split(): here only its length-0 test and its first element are used
SplitIsEmpty(s) == LStrip(s) = ""

SplitFirst(s) == SubSeq(LStrip(s), 1, FirstWordEnd(LStrip(s), 1))

RECURSIVE StrLess(_, _)
\* s < t on str
StrLess(s, t) ==
  IF t = "" THEN FALSE
  ELSE IF s = "" THEN TRUE
  ELSE IF Char(s, 1) = Char(t, 1) THEN StrLess(Tail(s), Tail(t))
  ELSE Ord(Char(s, 1)) < Ord(Char(t, 1))

---------------------------------------------------------------------------
(* dict primitives                                                         *)

HasKey(map, k) == \E i \in 1..Len(map) : map[i][1] = k

KeyIndex(map, k) == CHOOSE i \in 1..Len(map) : map[i][1] = k

\* map[k] for a key that is present
Get(map, k) == map[KeyIndex(map, k)][2]

\* Faulty variant: an existing key keeps its value (setdefault).  C13 does not
\* survive it.
Put_KeepFirst(map, k, v) ==
  IF \E i \in 1..Len(map) : map[i][1] = k THEN map ELSE Append(map, <<k, v>>)

\* map[k] = v: an existing key keeps its place, a new key goes last
Put(map, k, v) ==
  IF HasKey(map, k)
  THEN [map EXCEPT ![KeyIndex(map, k)] = <<k, v>>]
  ELSE Append(map, <<k, v>>)

\* list(map.keys())
Keys(map) == [i \in 1..Len(map) |-> map[i][1]]

KeySet(map) == {map[i][1] : i \in 1..Len(map)}

Range(seq) == {seq[i] : i \in 1..Len(seq)}

---------------------------------------------------------------------------
(* difflib.SequenceMatcher(None, a, b) and difflib.get_close_matches, as   *)
(* called by get_quote.  No junk: isjunk is None, and the autojunk         *)
(* heuristic needs 200 or more elements.  Windows a[alo..ahi], b[blo..bhi] *)
(* are 1-based and inclusive.                                              *)

Min(x, y) == IF x <= y THEN x ELSE y

SetMax(S) == CHOOSE x \in S : \A y \in S : y <= x

SetMin(S) == CHOOSE x \in S : \A y \in S : x <= y

RECURSIVE RunLen(_, _, _, _, _, _)
\* length of the common run a[i..] = b[j..] inside a[..ahi], b[..bhi]
RunLen(a, b, i, j, ahi, bhi) ==
  IF i <= ahi /\ j <= bhi /\ Char(a, i) = Char(b, j)
  THEN 1 + RunLen(a, b, i + 1, j + 1, ahi, bhi)
  ELSE 0

\* size of the longest matching block of the window (0: none)
LongestSize(a, b, alo, ahi, blo, bhi) ==
  SetMax({0} \cup {RunLen(a, b, i, j, ahi, bhi) : i \in alo..ahi, j \in blo..bhi})

\* of the blocks of size k, the earliest start in a
LongestI(a, b, alo, ahi, blo, bhi, k) ==
  SetMin({i \in alo..ahi : \E j \in blo..bhi : RunLen(a, b, i, j, ahi, bhi) = k})

\* of the blocks of size k starting at i in a, the earliest start in b
LongestJ(a, b, i, ahi, blo, bhi, k) ==
  SetMin({j \in blo..bhi : RunLen(a, b, i, j, ahi, bhi) = k})

BlockAt(a, b, i, ahi, blo, bhi, k) == <<i, LongestJ(a, b, i, ahi, blo, bhi, k), k>>

BlockOfSize(a, b, alo, ahi, blo, bhi, k) ==
  IF k = 0 THEN <<alo, blo, 0>>
  ELSE BlockAt(a, b, LongestI(a, b, alo, ahi, blo, bhi, k), ahi, blo, bhi, k)

\* SequenceMatcher.find_longest_match(alo, ahi, blo, bhi) as <<i, j, k>>: the
\* longest block; of those the one starting earliest in a; of those the one
\* starting earliest in b.
FindLongestMatch(a, b, alo, ahi, blo, bhi) ==
  BlockOfSize(a, b, alo, ahi, blo, bhi, LongestSize(a, b, alo, ahi, blo, bhi))

RECURSIVE MatchingSize(_, _, _, _, _, _)
\* block m, then the blocks to its left and to its right
BlocksAround(a, b, alo, ahi, blo, bhi, m) ==
  IF m[3] = 0 THEN 0
  ELSE m[3]
       + (IF alo < m[1] /\ blo < m[2]
          THEN MatchingSize(a, b, alo, m[1] - 1, blo, m[2] - 1) ELSE 0)
       + (IF m[1] + m[3] <= ahi /\ m[2] + m[3] <= bhi
          THEN MatchingSize(a, b, m[1] + m[3], ahi, m[2] + m[3], bhi) ELSE 0)

\* sum of the sizes of SequenceMatcher.get_matching_blocks() within the window
MatchingSize(a, b, alo, ahi, blo, bhi) ==
  BlocksAround(a, b, alo, ahi, blo, bhi, FindLongestMatch(a, b, alo, ahi, blo, bhi))

\* A similarity 2.0*matches/length is kept as the fraction <<2*matches, length>>;
\* _calculate_ratio returns 1.0 for length 0.
CalculateRatio(matches, length) == IF length > 0 THEN <<2 * matches, length>> ELSE <<1, 1>>

RatioGE(r, s) == r[1] * s[2] >= s[1] * r[2]

RatioEq(r, s) == r[1] * s[2] = s[1] * r[2]

\* SequenceMatcher.ratio()
Ratio(a, b) == CalculateRatio(MatchingSize(a, b, 1, Len(a), 1, Len(b)), Len(a) + Len(b))

\* SequenceMatcher.real_quick_ratio()
RealQuickRatio(a, b) == CalculateRatio(Min(Len(a), Len(b)), Len(a) + Len(b))

RECURSIVE RemoveFirst(_, _)
RemoveFirst(s, c) ==
  IF s = "" THEN ""
  ELSE IF Char(s, 1) = c THEN Tail(s)
  ELSE Char(s, 1) \o RemoveFirst(Tail(s), c)

RECURSIVE MultisetCommon(_, _)
\* how many elements of a pair off with distinct equal elements of b
MultisetCommon(a, b) ==
  IF a = "" \/ b = "" THEN 0
  ELSE IF Contains(b, Char(a, 1))
       THEN 1 + MultisetCommon(Tail(a), RemoveFirst(b, Char(a, 1)))
       ELSE MultisetCommon(Tail(a), b)

\* SequenceMatcher.quick_ratio()
QuickRatio(a, b) == CalculateRatio(MultisetCommon(a, b), Len(a) + Len(b))

\* s.ratio() once x has passed real_quick_ratio() >= cutoff and
\* quick_ratio() >= cutoff (both are upper bounds of ratio()); a score below
\* every cutoff otherwise.
GuardedRatio(x, word, cutoff) ==
  IF RatioGE(RealQuickRatio(x, word), cutoff) /\ RatioGE(QuickRatio(x, word), cutoff)
  THEN Ratio(x, word)
  ELSE <<0, 1>>

\* result: the (score, x) tuples of the possibilities with ratio() >= cutoff
ScoredMatches(word, possibilities, cutoff) ==
  SelectSeq([i \in 1..Len(possibilities) |->
               <<GuardedRatio(possibilities[i], word, cutoff), possibilities[i]>>],
            LAMBDA t : RatioGE(t[1], cutoff))

\* (score1, x1) > (score2, x2) on Python tuples
TupleGreater(t, u) ==
  IF RatioEq(t[1], u[1]) THEN StrLess(u[2], t[2]) ELSE ~RatioGE(u[1], t[1])

\* heapq.nlargest(1, result): the greatest tuple
NLargest(result) ==
  IF result = <<>> THEN <<>>
  ELSE << result[CHOOSE i \in 1..Len(result) :
                   \A h \in 1..Len(result) :
                      result[h] = result[i] \/ TupleGreater(result[i], result[h])] >>

\* [x for score, x in result]
Second(result) == [i \in 1..Len(result) |-> result[i][2]]

\* difflib.get_close_matches(word, possibilities, n, cutoff)[:1]
GetCloseMatches(word, possibilities, cutoff) ==
  Second(NLargest(ScoredMatches(word, possibilities, cutoff)))

---------------------------------------------------------------------------
(* The exchange listing (EQUITY_L.csv) as the app receives it              *)

\* pandas reads an empty cell as the float nan; no cell reads as this text
NaN == "NaN"

\* f"{value}"
Format(v) == IF v = NaN THEN "nan" ELSE v

\* Rows the listing may hold: well-formed ones, among them one whose first
\* word is an alias of another company and one whose symbol and name are
\* aliases already, and one whose company name cell is empty.
ListingRows ==
  { [SYMBOL |-> "TATASTEEL", NAME |-> "Tata Steel Limited"],
    [SYMBOL |-> "HDFC", NAME |-> "HDFC Limited"],
    [SYMBOL |-> "HDFCLIFE", NAME |-> "HDFC Life"],
    [SYMBOL |-> "SOL", NAME |-> "Solana"],
    [SYMBOL |-> "BADCO", NAME |-> NaN] }

\* longest listing considered
MaxRows == 2

RECURSIVE SeqsUpTo(_, _)
SeqsUpTo(S, n) ==
  IF n = 0 THEN {<<>>}
  ELSE SeqsUpTo(S, n - 1) \cup {Append(s, x) : s \in SeqsUpTo(S, n - 1), x \in S}

Listings == SeqsUpTo(ListingRows, MaxRows)

\* What requests.get / pd.read_csv can give: an exception, a status other
\* than 200, or the parsed rows.
FetchOutcomes ==
  { [status |-> "exception", rows |-> <<>>], [status |-> "non200", rows |-> <<>>] }
  \cup { [status |-> "200", rows |-> l] : l \in Listings }

\* the call returned before fetching
NoFetch == [status |-> "nofetch", rows |-> <<>>]

---------------------------------------------------------------------------
(* The other programs at rest                                              *)

\* a progress file a crash left half written: json.load raises on it
\* (no symbol reads "<torn>")
Torn == {"<torn>"}

\* no engine process has run yet: no progress file, no corpus
EngineOff ==
  /\ progressFile = {}
  /\ corpusFile = <<>>
  /\ epc = "off"
  /\ processed_symbols = {}
  /\ to_process = {}
  /\ batch_data = <<>>
  /\ runs = 0
  /\ startProgress = {}
  /\ fetchedInRun = {}

\* where the clock stands when the app starts
StartTime == 1000

\* market_cache = {"data": "", "timestamp": 0}, and no call yet
MarketIdle ==
  /\ market_cache = [data |-> "", timestamp |-> 0]
  /\ clock = StartTime
  /\ context = ""
  /\ called = "none"
  /\ calledAt = 0
  /\ cacheBefore = [data |-> "", timestamp |-> 0]
  /\ hists = <<>>

\* neither runner has been started, and no dataset has been prepared
RunnerOff ==
  /\ program = "none"
  /\ rpc = "off"
  /\ step = 0
  /\ results = <<>>
  /\ launched = <<>>
  /\ alive = {}
  /\ overlapped = {}
  /\ outLeft = 0
  /\ errLeft = 0
  /\ errPipe = 0
  /\ cstate = "none"
  /\ ccode = 0

PrepIdle ==
  /\ ppc = "idle"
  /\ data = <<>>
  /\ instruction_data = <<>>

ToolsOff == RunnerOff /\ PrepIdle

---------------------------------------------------------------------------
(* src/finos-app/api/index.py                                              *)

STATIC_TICKER_MAP ==
  << <<"APPLE", "AAPL">>, <<"MICROSOFT", "MSFT">>, <<"GOOGLE", "GOOGL">>,
     <<"AMAZON", "AMZN">>, <<"TESLA", "TSLA">>, <<"META", "META">>,
     <<"NETFLIX", "NFLX">>, <<"NVIDIA", "NVDA">>, <<"AMD", "AMD">>,
     <<"INTEL", "INTC">>, <<"COINBASE", "COIN">>, <<"BITCOIN", "BTC-USD">>,
     <<"BTC", "BTC-USD">>, <<"ETHEREUM", "ETH-USD">>, <<"ETH", "ETH-USD">>,
     <<"SOLANA", "SOL-USD">>, <<"SOL", "SOL-USD">>, <<"DOGECOIN", "DOGE-USD">>,
     <<"DOGE", "DOGE-USD">>, <<"RIPPLE", "XRP-USD">>, <<"XRP", "XRP-USD">>,
     <<"CARDANO", "ADA-USD">>, <<"ADA", "ADA-USD">>, <<"SHIBA", "SHIB-USD">>,
     <<"SHIB", "SHIB-USD">>, <<"MATIC", "MATIC-USD">>, <<"POLYGON", "MATIC-USD">>,
     <<"RELIANCE", "RELIANCE.NS">>, <<"RIL", "RELIANCE.NS">>, <<"TCS", "TCS.NS">>,
     <<"TATA CONSULTANCY", "TCS.NS">>, <<"HDFC BANK", "HDFCBANK.NS">>, <<"HDFC", "HDFCBANK.NS">>,
     <<"INFOSYS", "INFY.NS">>, <<"INFY", "INFY.NS">>, <<"ICICI", "ICICIBANK.NS">>,
     <<"ICICI BANK", "ICICIBANK.NS">>, <<"SBI", "SBIN.NS">>, <<"STATE BANK", "SBIN.NS">>,
     <<"BHARTI AIRTEL", "BHARTIARTL.NS">>, <<"AIRTEL", "BHARTIARTL.NS">>, <<"ITC", "ITC.NS">>,
     <<"KOTAK", "KOTAKBANK.NS">>, <<"KOTAK BANK", "KOTAKBANK.NS">>, <<"L&T", "LT.NS">>,
     <<"LARSEN", "LT.NS">>, <<"AXIS BANK", "AXISBANK.NS">>, <<"AXIS", "AXISBANK.NS">>,
     <<"HUL", "HINDUNILVR.NS">>, <<"HINDUSTAN UNILEVER", "HINDUNILVR.NS">>, <<"TATA MOTORS", "TATAMOTORS.NS">>,
     <<"MARUTI", "MARUTI.NS">>, <<"SUN PHARMA", "SUNPHARMA.NS">>, <<"ASIAN PAINTS", "ASIANPAINT.NS">>,
     <<"TITAN", "TITAN.NS">>, <<"BAJAJ FINANCE", "BAJFINANCE.NS">>, <<"ULTRATECH", "ULTRACEMCO.NS">>,
     <<"WIPRO", "WIPRO.NS">>, <<"NESTLE", "NESTLEIND.NS">>, <<"ZOMATO", "ZOMATO.NS">>,
     <<"PAYTM", "PAYTM.NS">>, <<"JIO", "JIOFIN.NS">>, <<"JIO FINANCIAL", "JIOFIN.NS">>,
     <<"OLA", "OLAELEC.NS">>, <<"OLA ELECTRIC", "OLAELEC.NS">> >>

\* One pass of the loop body over a row: the dict after the pass, and
\* whether the pass raised (AttributeError on a nan cell, IndexError on a
\* company name without a word).
LoadRow(map, row) ==
  IF row.NAME = NaN \/ row.SYMBOL = NaN
  THEN [map |-> map, raised |-> TRUE]
  ELSE LET sym == Format(row.SYMBOL) \o ".NS"
           name == Upper(row.NAME)
           withSymbol == Put(map, Upper(row.SYMBOL), sym)
           withName == Put(withSymbol, name, sym)
           first_word == SplitFirst(name)
       IN IF SplitIsEmpty(name)
          THEN [map |-> withName, raised |-> TRUE]
          ELSE [map |-> IF Len(first_word) > 2 /\ ~HasKey(withName, first_word)
                        THEN Put(withName, first_word, sym)
                        ELSE withName,
                raised |-> FALSE]

RECURSIVE LoadRows(_, _)
\* for _, row in df.iterrows(): ...   TICKER_MAP is updated in place, so the
\* rows before a raising one stay written.
NextRows(r, rows) == IF r.raised THEN r ELSE LoadRows(r.map, Tail(rows))

LoadRows(map, rows) ==
  IF rows = <<>> THEN [map |-> map, raised |-> FALSE]
  ELSE NextRows(LoadRow(map, Head(rows)), rows)

\* Faulty variant: the size test the wrong way round.  C15 does not survive it.
LoadSkipped_Smaller(map) == Len(map) < Len(STATIC_TICKER_MAP)

\* if len(TICKER_MAP) > len(STATIC_TICKER_MAP): return
LoadSkipped(map) == Len(map) > Len(STATIC_TICKER_MAP)

\* load_ticker_map(): the globals after the call and how it ended.  The
\* bare except swallows every exception; TICKER_NAMES is assigned only
\* after the loop has finished.
LoopResult(names, r) ==
  IF r.raised
  THEN [map |-> r.map, names |-> names, result |-> "exception"]
  ELSE [map |-> r.map, names |-> Keys(r.map), result |-> "loaded"]

load_ticker_map(map, names, f) ==
  IF LoadSkipped(map) THEN [map |-> map, names |-> names, result |-> "skipped"]
  ELSE IF f.status = "exception" THEN [map |-> map, names |-> names, result |-> "exception"]
  ELSE IF f.status # "200" THEN [map |-> map, names |-> names, result |-> "non200"]
  ELSE LoopResult(names, LoadRows(map, f.rows))

\* request.symbol.upper().strip()
Normalize(s) == Strip(Upper(s))

\* [k for k in TICKER_NAMES if k.startswith(query)]
PrefixMatches(names, q) == SelectSeq(names, LAMBDA k : StartsWith(k, q))

RECURSIVE SortByLenFrom(_, _)
SortByLenFrom(matches, n) ==
  IF \A i \in 1..Len(matches) : Len(matches[i]) < n THEN <<>>
  ELSE SelectSeq(matches, LAMBDA k : Len(k) = n) \o SortByLenFrom(matches, n + 1)

\* matches.sort(key=len): list.sort is stable
SortByLen(matches) == SortByLenFrom(matches, 0)

\* cutoff=0.5
Cutoff == <<1, 2>>

\* TICKER_MAP[k]: KeyError when k is no key
Subscript(map, k, by) ==
  IF HasKey(map, k)
  THEN [symbol |-> Get(map, k), stage |-> by, raised |-> FALSE]
  ELSE [symbol |-> "", stage |-> by, raised |-> TRUE]

Unmatched(q) == [symbol |-> q, stage |-> "none", raised |-> FALSE]

\* if close_matches: symbol = TICKER_MAP[close_matches[0]]
FuzzyMatch(map, q, close_matches) ==
  IF close_matches # <<>> THEN Subscript(map, close_matches[1], "fuzzy") ELSE Unmatched(q)

\* Faulty variant: the fuzzy search is tried whatever the length of the
\* query.  C21 does not survive it.
PrefixMatch_AnyLength(map, names, q, matches) ==
  IF matches # <<>> THEN Subscript(map, SortByLen(matches)[1], "prefix")
  ELSE FuzzyMatch(map, q, GetCloseMatches(q, names, Cutoff))

\* if matches: ... symbol = TICKER_MAP[matches[0]] / elif len(query) > 2: ...
PrefixMatch(map, names, q, matches) ==
  IF matches # <<>> THEN Subscript(map, SortByLen(matches)[1], "prefix")
  ELSE IF Len(q) > 2 THEN FuzzyMatch(map, q, GetCloseMatches(q, names, Cutoff))
  ELSE Unmatched(q)

\* Steps 1 and 2 of get_quote: exact match, else shortest prefix match,
\* else (query longer than 2) the closest fuzzy match, else the query.
MatchAlias(map, names, q) ==
  IF HasKey(map, q) THEN Subscript(map, q, "exact")
  ELSE PrefixMatch(map, names, q, PrefixMatches(names, q))

Markers == <<".NS", ".BO", "^", "-", "=">>

\* Faulty variant: "=" is not taken for a marker.  C8 does not survive it.
HasMarker_NoEquals(s) == \E i \in 1..(Len(Markers) - 1) : Contains(s, Markers[i])

\* any(x in symbol for x in [".NS", ".BO", "^", "-", "="])
HasMarker(s) == \E i \in 1..Len(Markers) : Contains(s, Markers[i])

\* Faulty variant: the isalpha() test is missing.  C7 does not survive it.
Ambiguous_LenOnly(s) == Len(s) <= 5

\* len(symbol) <= 5 and symbol.isalpha()
Ambiguous(s) == Len(s) <= 5 /\ IsAlpha(s)

\* the probe is issued exactly for an ambiguous symbol without marker
ProbeIssued(m) == ~m.raised /\ ~HasMarker(m.symbol) /\ Ambiguous(m.symbol)

ProbeOutcomes == {"price", "noprice", "exception"}

\* Faulty variant: no try/except around the probe.  C2 does not survive it.
ProbeUS_Unguarded(s, p) ==
  IF p = "price" THEN [symbol |-> s, raised |-> FALSE]
  ELSE IF p = "noprice" THEN [symbol |-> s \o ".NS", raised |-> FALSE]
  ELSE [symbol |-> "", raised |-> TRUE]

\* Faulty variant: "except: pass".  C6 does not survive it.
ProbeUS_ExceptPass(s, p) ==
  IF p = "noprice"
  THEN [symbol |-> s \o ".NS", raised |-> FALSE]
  ELSE [symbol |-> s, raised |-> FALSE]

\* try: if yf.Ticker(symbol).fast_info.last_price: pass / else: symbol += ".NS"
\* except: symbol += ".NS"
ProbeUS(s, p) ==
  IF p = "price"
  THEN [symbol |-> s, raised |-> FALSE]
  ELSE [symbol |-> s \o ".NS", raised |-> FALSE]

\* Step 3 of get_quote, applied to whatever steps 1 and 2 left in symbol
SuffixLogic(s, p) ==
  IF HasMarker(s) THEN [symbol |-> s, raised |-> FALSE]
  ELSE IF Ambiguous(s) THEN ProbeUS(s, p)
  ELSE [symbol |-> s \o ".NS", raised |-> FALSE]

\* request.symbol values a client sends
Queries ==
  { "apple ", "TCS", "BTC", "HDFC", " ", "APP", "S", "TATA", "RELAINCE",
    "^NSEI", "BTC-USD", "INR=X", "Q.NS", "zzzz", "ZZ", "ZZZZZZ", "XYZABC123", "Q1",
    "sol", "XTC", "cs" }

\* the handler's locals outside a request
NoRequest ==
  /\ raw = ""
  /\ query = ""
  /\ symbol = ""
  /\ stage = "idle"
  /\ probe = "notissued"
  /\ raised = FALSE
  /\ status = 0

Init ==
  /\ TICKER_MAP = STATIC_TICKER_MAP
  /\ TICKER_NAMES = Keys(STATIC_TICKER_MAP)
  /\ pc = "serving"
  /\ loadResult = "none"
  /\ preMap = STATIC_TICKER_MAP
  /\ preNames = Keys(STATIC_TICKER_MAP)
  /\ fetched = NoFetch
  /\ NoRequest
  /\ EngineOff
  /\ MarketIdle
  /\ ToolsOff

\* the quote lookup for the resolved symbol and the response
Answer(r, q, m, p, s) ==
  /\ raw' = r
  /\ query' = q
  /\ symbol' = s.symbol
  /\ stage' = m.stage
  /\ probe' = p
  /\ raised' = s.raised
  /\ \E price \in IF s.raised THEN {FALSE} ELSE BOOLEAN :
       status' = IF price THEN 200 ELSE 404

\* step 3 on the symbol steps 1 and 2 left; a KeyError skips it
SuffixStep(r, q, m) ==
  \E p \in IF ProbeIssued(m) THEN ProbeOutcomes ELSE {"notissued"} :
     Answer(r, q, m, p,
            IF m.raised THEN [symbol |-> "", raised |-> TRUE]
            ELSE SuffixLogic(m.symbol, p))

\* the handler after load_ticker_map() has returned
Resolution(ld, f) ==
  /\ fetched' = f
  /\ TICKER_MAP' = ld.map
  /\ TICKER_NAMES' = ld.names
  /\ loadResult' = ld.result
  /\ \E r \in Queries :
       SuffixStep(r, Normalize(r), MatchAlias(ld.map, ld.names, Normalize(r)))

\* POST /api/py/quote: load_ticker_map(), the resolution steps, then the
\* quote lookup for the resolved symbol: 200 with a price, 404 when the
\* lookup gives none or anything raised.  The handler is an async def
\* without an await, so it runs to its return as one step of the event loop.
get_quote ==
  /\ pc = "serving"
  /\ \E f \in IF LoadSkipped(TICKER_MAP) THEN {NoFetch} ELSE FetchOutcomes :
       Resolution(load_ticker_map(TICKER_MAP, TICKER_NAMES, f), f)
  /\ preMap' = TICKER_MAP
  /\ preNames' = TICKER_NAMES
  /\ pc' = "responding"
  /\ UNCHANGED <<engineVars, marketVars, toolVars>>

\* the response is sent and the handler's locals are gone
Respond ==
  /\ pc = "responding"
  /\ pc' = "serving"
  /\ raw' = ""
  /\ query' = ""
  /\ symbol' = ""
  /\ stage' = "idle"
  /\ probe' = "notissued"
  /\ raised' = FALSE
  /\ status' = 0
  /\ fetched' = NoFetch
  /\ UNCHANGED <<TICKER_MAP, TICKER_NAMES, loadResult, preMap, preNames>>
  /\ UNCHANGED <<engineVars, marketVars, toolVars>>

Next == get_quote \/ Respond

Spec == Init /\ [][Next]_vars

---------------------------------------------------------------------------
(* src/tenali-llm/deployment/api.py                                        *)

\* One pass of the loop body: the company name is written before the
\* symbol's .upper() can raise.
ApiLoadRow(map, row) ==
  IF row.NAME = NaN THEN [map |-> map, raised |-> TRUE]
  ELSE IF row.SYMBOL = NaN
  THEN [map |-> Put(map, Upper(row.NAME), Format(row.SYMBOL) \o ".NS"), raised |-> TRUE]
  ELSE [map |-> Put(Put(map, Upper(row.NAME), Format(row.SYMBOL) \o ".NS"),
                    Upper(row.SYMBOL), Format(row.SYMBOL) \o ".NS"),
        raised |-> FALSE]

RECURSIVE ApiLoadRows(_, _)
ApiNextRows(r, rows) == IF r.raised THEN r ELSE ApiLoadRows(r.map, Tail(rows))

ApiLoadRows(map, rows) ==
  IF rows = <<>> THEN [map |-> map, raised |-> FALSE]
  ELSE ApiNextRows(ApiLoadRow(map, Head(rows)), rows)

\* load_ticker_map() of deployment/api.py: no skip test; except Exception
\* prints and returns.
api_load_ticker_map(map, names, f) ==
  IF f.status = "exception" THEN [map |-> map, names |-> names, result |-> "exception"]
  ELSE IF f.status # "200" THEN [map |-> map, names |-> names, result |-> "non200"]
  ELSE LoopResult(names, ApiLoadRows(map, f.rows))

CryptoShorthands == {"BTC", "ETH", "SOL", "ADA", "XRP", "DOGE"}

\* cutoff=0.4
ApiCutoff == <<2, 5>>

\* elif len(query) > 2 and TICKER_NAMES: matches = get_close_matches(..., n=3, ...)
\* of which only matches[0] is used
ApiFuzzyMatch(map, names, q) ==
  IF Len(q) > 2 /\ names # <<>>
  THEN FuzzyMatch(map, q, GetCloseMatches(q, names, ApiCutoff))
  ELSE Unmatched(q)

\* Steps 1 to 3 of get_quote
ApiMatchAlias(map, names, q) ==
  IF q \in CryptoShorthands
  THEN [symbol |-> q \o "-USD", stage |-> "crypto", raised |-> FALSE]
  ELSE IF HasKey(map, q) THEN Subscript(map, q, "exact")
  ELSE ApiFuzzyMatch(map, names, q)

\* Step 4 of get_quote
ApiSuffixLogic(s) ==
  IF /\ ~EndsWith(s, ".NS")
     /\ ~EndsWith(s, ".BO")
     /\ ~Contains(s, "^")
     /\ ~Contains(s, "-")
     /\ Len(s) < 10
  THEN [symbol |-> s \o ".NS", raised |-> FALSE]
  ELSE [symbol |-> s, raised |-> FALSE]

\* the module body up to line 252 has run: TICKER_MAP = {}, TICKER_NAMES = []
InitDeploy ==
  /\ TICKER_MAP = <<>>
  /\ TICKER_NAMES = <<>>
  /\ pc = "import"
  /\ loadResult = "none"
  /\ preMap = <<>>
  /\ preNames = <<>>
  /\ fetched = NoFetch
  /\ NoRequest
  /\ EngineOff
  /\ MarketIdle
  /\ ToolsOff

ApiLoaded(ld, f) ==
  /\ fetched' = f
  /\ TICKER_MAP' = ld.map
  /\ TICKER_NAMES' = ld.names
  /\ loadResult' = ld.result

\* line 252: load_ticker_map() while the module is imported
api_import ==
  /\ pc = "import"
  /\ \E f \in FetchOutcomes : ApiLoaded(api_load_ticker_map(TICKER_MAP, TICKER_NAMES, f), f)
  /\ preMap' = TICKER_MAP
  /\ preNames' = TICKER_NAMES
  /\ pc' = "serving"
  /\ UNCHANGED <<raw, query, symbol, stage, probe, raised, status>>
  /\ UNCHANGED <<engineVars, marketVars, toolVars>>

ApiSuffixStep(r, q, m) ==
  Answer(r, q, m, "notissued",
         IF m.raised THEN [symbol |-> "", raised |-> TRUE] ELSE ApiSuffixLogic(m.symbol))

\* POST /quote
api_get_quote ==
  /\ pc = "serving"
  /\ \E r \in Queries :
       ApiSuffixStep(r, Normalize(r), ApiMatchAlias(TICKER_MAP, TICKER_NAMES, Normalize(r)))
  /\ pc' = "responding"
  /\ UNCHANGED <<TICKER_MAP, TICKER_NAMES, loadResult, preMap, preNames, fetched>>
  /\ UNCHANGED <<engineVars, marketVars, toolVars>>

NextDeploy == api_import \/ api_get_quote \/ Respond

SpecDeploy == InitDeploy /\ [][NextDeploy]_vars

---------------------------------------------------------------------------
(* src/tenali-llm/data_collection/production_historical_data.py            *)
(* A training example is known by the symbol it was generated for.  The    *)
(* process may die at any point (kill, power loss, an exception leaving    *)
(* run()); the two files survive it, the object does not.                  *)

\* the tickers the listing sources can name
Universe == {"AAPL", "TCS.NS", "INFY.NS"}

\* Save every BATCH_SIZE examples.  The code sets 100; the model scales it
\* to the size of Universe.
BATCH_SIZE == 2

\* how often the engine is started
MaxRuns == 2

\* fetch_history and generate_llm_narrative for one symbol: an example, no
\* data (empty history or an exception), or too short a history
SymbolOutcomes == {"example", "nofetch", "short"}

\* load_progress(): the symbols the progress file lists
load_progress(file) == file

\* Faulty variant: the processed symbols are not filtered out.  C16 does not
\* survive it.
ToProcess_Unfiltered(all_tickers, processed) == all_tickers

\* [t for t in all_tickers if t not in self.processed_symbols]
ToProcess(all_tickers, processed) == {t \in all_tickers : t \notin processed}

\* the object is gone with the process
EngineObjectLost ==
  /\ processed_symbols' = {}
  /\ to_process' = {}
  /\ batch_data' = <<>>

\* engine = TenaliDataEngine(): load_progress() raises on a torn file and the
\* process ends
engine_init ==
  /\ epc \in {"off", "done"}
  /\ runs < MaxRuns
  /\ runs' = runs + 1
  /\ fetchedInRun' = {}
  /\ IF progressFile = Torn
     THEN /\ epc' = "off"
          /\ EngineObjectLost
          /\ UNCHANGED startProgress
     ELSE /\ epc' = "constructed"
          /\ processed_symbols' = load_progress(progressFile)
          /\ startProgress' = startProgress \cup load_progress(progressFile)
          /\ to_process' = {}
          /\ batch_data' = <<>>
  /\ UNCHANGED <<progressFile, corpusFile>>
  /\ UNCHANGED <<quoteVars, marketVars, toolVars>>

\* run(), lines 241-254: the universe the sources name today, without the
\* processed symbols, in shuffled order
engine_gather ==
  /\ epc = "constructed"
  /\ \E all_tickers \in (SUBSET Universe) \ {{}} :
       to_process' = ToProcess(all_tickers, processed_symbols)
  /\ batch_data' = <<>>
  /\ epc' = "loop"
  /\ UNCHANGED <<progressFile, corpusFile, processed_symbols, runs, startProgress,
                 fetchedInRun>>
  /\ UNCHANGED <<quoteVars, marketVars, toolVars>>

\* one pass of the loop body up to the batch test (lines 258-273); the
\* shuffle lets any remaining symbol come next
Visited(s, batch) ==
  /\ fetchedInRun' = fetchedInRun \cup {s}
  /\ processed_symbols' = processed_symbols \cup {s}
  /\ to_process' = to_process \ {s}
  /\ batch_data' = batch
  /\ epc' = IF Len(batch) >= BATCH_SIZE THEN "batch" ELSE "loop"

engine_process ==
  /\ epc = "loop"
  /\ \E s \in to_process : \E o \in SymbolOutcomes :
       Visited(s, IF o = "example" THEN Append(batch_data, s) ELSE batch_data)
  /\ UNCHANGED <<progressFile, corpusFile, runs, startProgress>>
  /\ UNCHANGED <<quoteVars, marketVars, toolVars>>

\* the loop is over (line 280): a final save when batch_data is not empty
engine_loop_end ==
  /\ epc = "loop"
  /\ to_process = {}
  /\ epc' = IF batch_data # <<>> THEN "final" ELSE "done"
  /\ UNCHANGED <<progressFile, corpusFile, processed_symbols, to_process, batch_data,
                 runs, startProgress, fetchedInRun>>
  /\ UNCHANGED <<quoteVars, marketVars, toolVars>>

\* self.save_batch(batch_data), lines 274 and 281
engine_save_batch ==
  /\ epc \in {"batch", "final"}
  /\ corpusFile' = corpusFile \o batch_data
  /\ epc' = IF epc = "batch" THEN "batch_saved" ELSE "final_saved"
  /\ UNCHANGED <<progressFile, processed_symbols, to_process, batch_data, runs,
                 startProgress, fetchedInRun>>
  /\ UNCHANGED <<quoteVars, marketVars, toolVars>>

\* self.save_progress(), lines 275-276 and 282
engine_save_progress ==
  /\ epc \in {"batch_saved", "final_saved"}
  /\ progressFile' = processed_symbols
  /\ batch_data' = IF epc = "batch_saved" THEN <<>> ELSE batch_data
  /\ epc' = IF epc = "batch_saved" THEN "loop" ELSE "done"
  /\ UNCHANGED <<corpusFile, processed_symbols, to_process, runs, startProgress,
                 fetchedInRun>>
  /\ UNCHANGED <<quoteVars, marketVars, toolVars>>

\* The process dies.  In save_batch it may have appended some of the lines;
\* in save_progress the file, opened with 'w', may be left torn.
engine_crash ==
  /\ epc \notin {"off", "done"}
  /\ epc' = "off"
  /\ EngineObjectLost
  /\ corpusFile' \in IF epc \in {"batch", "final"}
                     THEN {corpusFile \o SubSeq(batch_data, 1, k) : k \in 0..(Len(batch_data) - 1)}
                     ELSE {corpusFile}
  /\ progressFile' \in IF epc \in {"batch_saved", "final_saved"}
                       THEN {progressFile, Torn}
                       ELSE {progressFile}
  /\ UNCHANGED <<runs, startProgress, fetchedInRun>>
  /\ UNCHANGED <<quoteVars, marketVars, toolVars>>

NextEngine ==
  \/ engine_init
  \/ engine_gather
  \/ engine_process
  \/ engine_loop_end
  \/ engine_save_batch
  \/ engine_save_progress
  \/ engine_crash

SpecEngine == Init /\ [][NextEngine]_vars

---------------------------------------------------------------------------
(* get_market_context of src/finos-app/api/index.py (deployment/api.py     *)
(* has the same function with a fourth ticker).  It is called from the     *)
(* chat handler and runs without an await, one call at a time.             *)

\* the cache test's 300 seconds
TTL == 300

\* how far the clock is followed, in TTLs
MaxTicks == 3

\* by how much the clock moves between calls
Ticks == {60, 240, 300}

Digits == "0123456789"

RECURSIVE NatToStr(_)
\* str(n)
NatToStr(n) ==
  IF n < 10 THEN Char(Digits, n + 1)
  ELSE NatToStr(n \div 10) \o Char(Digits, (n % 10) + 1)

RECURSIVE Join(_, _)
\* sep.join(parts)
Join(parts, sep) ==
  IF parts = <<>> THEN ""
  ELSE IF Len(parts) = 1 THEN parts[1]
  ELSE parts[1] \o sep \o Join(Tail(parts), sep)

\* f"Date: {datetime.now(...).strftime('%d-%b %H:%M')}": the time to the minute
DateLine(t) == "Date: " \o NatToStr(t \div 60)

\* tickers = {"^NSEI": "Nifty 50", "^NSEBANK": "Bank Nifty", "INR=X": "USD/INR"}
MarketTickers ==
  << <<"^NSEI", "Nifty 50">>, <<"^NSEBANK", "Bank Nifty">>, <<"INR=X", "USD/INR">> >>

\* yf.Ticker(ticker).history(period="2d") raises, or gives no, one or two rows
HistoryOutcomes == {"raise", "empty", "one", "two"}

\* the line a ticker adds to data_text: none unless there is a row, the
\* change only with two rows
TickerLine(name, h) ==
  IF h = "two" THEN << name \o ": 22,000 (+0.50%)" >>
  ELSE IF h = "one" THEN << name \o ": 22,000" >>
  ELSE <<>>

RECURSIVE TickerLines(_, _)
\* for ticker, name in tickers.items(): try: ... except: continue
TickerLines(tickers, h) ==
  IF tickers = <<>> THEN <<>>
  ELSE TickerLine(tickers[1][2], h[1]) \o TickerLines(Tail(tickers), Tail(h))

\* data_text after the loop
DataText(t, h) == <<DateLine(t)>> \o TickerLines(MarketTickers, h)

\* What a refresh can meet: whether building the date line raises, and what
\* each ticker's history fetch gives.
MarketScenarios ==
  { [date |-> "ok", hist |-> <<"raise", "raise", "raise">>],
    [date |-> "ok", hist |-> <<"two", "two", "two">>],
    [date |-> "ok", hist |-> <<"one", "empty", "raise">>],
    [date |-> "raise", hist |-> <<>>] }

\* Faulty variant: a cache exactly 300 seconds old still counts as fresh.
\* C17 does not survive it.
Fresh_Inclusive(cache, t) == t - cache.timestamp <= TTL /\ cache.data # ""

\* current_time - market_cache["timestamp"] < 300 and market_cache["data"]
Fresh(cache, t) == t - cache.timestamp < TTL /\ cache.data # ""

\* return market_cache["data"], from the cache test or from the outer except
ReturnCached(how) ==
  /\ context' = market_cache.data
  /\ called' = how
  /\ hists' = <<>>
  /\ UNCHANGED market_cache

\* result = " | ".join(data_text); the cache is updated; return result
ReturnResult(t, result, h) ==
  /\ market_cache' = [data |-> result, timestamp |-> t]
  /\ context' = result
  /\ called' = "refreshed"
  /\ hists' = h

\* the try block, lines 48-68
Refresh(t) ==
  \E sc \in MarketScenarios :
     IF sc.date = "raise" THEN ReturnCached("stale")
     ELSE ReturnResult(t, Join(DataText(t, sc.hist), " | "), sc.hist)

get_market_context ==
  /\ IF Fresh(market_cache, clock) THEN ReturnCached("cached") ELSE Refresh(clock)
  /\ calledAt' = clock
  /\ cacheBefore' = market_cache
  /\ UNCHANGED clock
  /\ UNCHANGED <<quoteVars, engineVars, toolVars>>

\* time passes
market_tick ==
  /\ \E d \in Ticks :
       /\ clock + d <= StartTime + MaxTicks * TTL
       /\ clock' = clock + d
  /\ UNCHANGED <<market_cache, context, called, calledAt, cacheBefore, hists>>
  /\ UNCHANGED <<quoteVars, engineVars, toolVars>>

NextMarket == get_market_context \/ market_tick

SpecMarket == Init /\ [][NextMarket]_vars

---------------------------------------------------------------------------
(* src/tenali-llm/train_tenali.py and                                      *)
(* src/tenali-llm/data_collection/run_supplementary.py                     *)
(* run_step and run_script have the same body: Popen with both pipes,      *)
(* read stdout to end-of-file, wait(), read stderr only after a non-zero   *)
(* exit; any Exception inside leaves through the except clause.  The       *)
(* child's stderr pipe holds PipeCap chunks; a write to a full pipe        *)
(* blocks.  A child closes its stdout when it exits, and it exits once it  *)
(* has written all it has to write.                                        *)

\* chunks an unread pipe holds before a write to it blocks
PipeCap == 2

\* most stdout lines, stderr chunks a child writes
MaxOut == 1

MaxErr == 3

ExitCodes == {0, 1}

\* main(): the three steps, in the order of lines 61, 71 and 82
TrainSteps == <<"prepare_dataset.py", "train_continued.py", "train_instruction.py">>

\* the scripts list of run_supplementary
scripts ==
  <<"economic_data.py", "crypto_data.py", "technical_patterns.py", "news_filings.py">>

\* the steps whose failure makes main() return (lines 62-63 and 83-84)
AbortsOnFailure == {1, 3}

\* what is typed at an input() prompt
Answers == {"y", "Y", "n"}

LowerChar(c) ==
  IF IndexIn(UpperCase, c) > 0 THEN Char(LowerCase, IndexIn(UpperCase, c)) ELSE c

RECURSIVE Lower(_)
\* str.lower()
Lower(s) == IF s = "" THEN "" ELSE LowerChar(Char(s, 1)) \o Lower(Tail(s))

UNCHANGED_Child == UNCHANGED <<outLeft, errLeft, errPipe, cstate, ccode>>

\* python train_tenali.py
train_start ==
  /\ rpc = "off"
  /\ program' = "train_tenali"
  /\ rpc' = "main"
  /\ results' = [i \in 1..Len(TrainSteps) |-> "pending"]
  /\ UNCHANGED <<step, launched, alive, overlapped>>
  /\ UNCHANGED_Child
  /\ UNCHANGED <<quoteVars, engineVars, marketVars, prepVars>>

\* if input("Run ...? (y/n): ").lower() == 'y':
train_prompt ==
  /\ program = "train_tenali"
  /\ rpc = "main"
  /\ step < Len(TrainSteps)
  /\ \E answer \in Answers :
       /\ step' = step + 1
       /\ IF Lower(answer) = "y"
          THEN rpc' = "popen" /\ UNCHANGED results
          ELSE /\ rpc' = "main"
               /\ results' = [results EXCEPT ![step + 1] = "skipped"]
  /\ UNCHANGED <<program, launched, alive, overlapped>>
  /\ UNCHANGED_Child
  /\ UNCHANGED <<quoteVars, engineVars, marketVars, prepVars>>

\* print("Pipeline Execution Finished!")
train_finish ==
  /\ program = "train_tenali"
  /\ rpc = "main"
  /\ step = Len(TrainSteps)
  /\ rpc' = "finished"
  /\ UNCHANGED <<program, step, results, launched, alive, overlapped>>
  /\ UNCHANGED_Child
  /\ UNCHANGED <<quoteVars, engineVars, marketVars, prepVars>>

\* python data_collection/run_supplementary.py
supp_start ==
  /\ rpc = "off"
  /\ program' = "run_supplementary"
  /\ rpc' = "main"
  /\ results' = [i \in 1..Len(scripts) |-> "pending"]
  /\ UNCHANGED <<step, launched, alive, overlapped>>
  /\ UNCHANGED_Child
  /\ UNCHANGED <<quoteVars, engineVars, marketVars, prepVars>>

\* for script in scripts: run_script(script)
supp_next ==
  /\ program = "run_supplementary"
  /\ rpc = "main"
  /\ step < Len(scripts)
  /\ step' = step + 1
  /\ rpc' = "popen"
  /\ UNCHANGED <<program, results, launched, alive, overlapped>>
  /\ UNCHANGED_Child
  /\ UNCHANGED <<quoteVars, engineVars, marketVars, prepVars>>

\* print("All supplementary data collection complete!")
supp_finish ==
  /\ program = "run_supplementary"
  /\ rpc = "main"
  /\ step = Len(scripts)
  /\ rpc' = "finished"
  /\ UNCHANGED <<program, step, results, launched, alive, overlapped>>
  /\ UNCHANGED_Child
  /\ UNCHANGED <<quoteVars, engineVars, marketVars, prepVars>>

\* run_step / run_script returns to its caller: main() of train_tenali
\* returns on a failed step 1 or 3 and only warns on a failed step 2; the
\* loop of run_supplementary ignores the outcome
Returned(ok) ==
  /\ results' = [results EXCEPT ![step] = IF ok THEN "ok" ELSE "failed"]
  /\ rpc' = IF program = "train_tenali" /\ ~ok /\ step \in AbortsOnFailure
            THEN "aborted" ELSE "main"

\* the parent lets go of the process object
Forgotten ==
  /\ cstate' = "none"
  /\ ccode' = 0
  /\ outLeft' = 0
  /\ errLeft' = 0
  /\ errPipe' = 0

\* process = subprocess.Popen(cmd, stdout=PIPE, stderr=PIPE, ...): it raises
\* (no such interpreter, no memory, ...) or the child runs
run_popen ==
  /\ rpc = "popen"
  /\ \/ /\ Returned(FALSE)
        /\ UNCHANGED <<launched, alive, overlapped>>
        /\ UNCHANGED_Child
     \/ /\ \E o \in 0..MaxOut, e \in 0..MaxErr :
             outLeft' = o /\ errLeft' = e
        /\ errPipe' = 0
        /\ cstate' = "running"
        /\ ccode' = 0
        /\ launched' = Append(launched, step)
        /\ alive' = alive \cup {step}
        /\ overlapped' = IF alive # {} THEN overlapped \cup {step} ELSE overlapped
        /\ rpc' = "stream"
        /\ UNCHANGED results
  /\ UNCHANGED <<program, step>>
  /\ UNCHANGED <<quoteVars, engineVars, marketVars, prepVars>>

\* for line in process.stdout: print(line, end=''): one line the child wrote
\* is read and printed, or decoding or printing it raises (the except clause
\* returns with the child still running)
run_stream_line ==
  /\ rpc = "stream"
  /\ cstate = "running"
  /\ outLeft > 0
  /\ \/ /\ outLeft' = outLeft - 1
        /\ UNCHANGED <<rpc, results, errLeft, errPipe, cstate, ccode>>
     \/ /\ Returned(FALSE)
        /\ Forgotten
  /\ UNCHANGED <<program, step, launched, alive, overlapped>>
  /\ UNCHANGED <<quoteVars, engineVars, marketVars, prepVars>>

\* the loop over process.stdout ends at end-of-file: the child has exited
run_stream_eof ==
  /\ rpc = "stream"
  /\ cstate = "exited"
  /\ rpc' = "wait"
  /\ UNCHANGED <<program, step, results, launched, alive, overlapped>>
  /\ UNCHANGED_Child
  /\ UNCHANGED <<quoteVars, engineVars, marketVars, prepVars>>

\* return_code = process.wait(); a non-zero code reads stderr and fails
run_wait ==
  /\ rpc = "wait"
  /\ Returned(ccode = 0)
  /\ Forgotten
  /\ UNCHANGED <<program, step, launched, alive, overlapped>>
  /\ UNCHANGED <<quoteVars, engineVars, marketVars, prepVars>>

\* the child writes a chunk to stderr: there must be room in the pipe
ChildMayWrite == errPipe < PipeCap

child_write_err ==
  /\ cstate = "running"
  /\ errLeft > 0
  /\ ChildMayWrite
  /\ errLeft' = errLeft - 1
  /\ errPipe' = errPipe + 1
  /\ UNCHANGED <<program, rpc, step, results, launched, alive, overlapped,
                 outLeft, cstate, ccode>>
  /\ UNCHANGED <<quoteVars, engineVars, marketVars, prepVars>>

\* the child has written everything and exits
child_exit ==
  /\ cstate = "running"
  /\ outLeft = 0
  /\ errLeft = 0
  /\ \E code \in ExitCodes : ccode' = code
  /\ cstate' = "exited"
  /\ alive' = alive \ {step}
  /\ UNCHANGED <<program, rpc, step, results, launched, overlapped,
                 outLeft, errLeft, errPipe>>
  /\ UNCHANGED <<quoteVars, engineVars, marketVars, prepVars>>

\* a process the parent let go of while it ran
Orphans == alive \ (IF cstate = "running" THEN {step} ELSE {})

orphan_exit ==
  /\ \E k \in Orphans : alive' = alive \ {k}
  /\ UNCHANGED <<program, rpc, step, results, launched, overlapped>>
  /\ UNCHANGED_Child
  /\ UNCHANGED <<quoteVars, engineVars, marketVars, prepVars>>

RunStep ==
  \/ run_popen
  \/ run_stream_line
  \/ run_stream_eof
  \/ run_wait
  \/ child_write_err
  \/ child_exit
  \/ orphan_exit

NextTrain == train_start \/ train_prompt \/ train_finish \/ RunStep

SpecTrain == Init /\ [][NextTrain]_vars

\* the operating system schedules parent and child: whichever can run, runs
SpecTrainFair == SpecTrain /\ WF_vars(NextTrain)

NextSupp == supp_start \/ supp_next \/ supp_finish \/ RunStep

SpecSupp == Init /\ [][NextSupp]_vars

---------------------------------------------------------------------------
(* src/tenali-llm/training/prepare_dataset.py                              *)
(* An item (a JSON object of a collected .jsonl line) is the function from *)
(* its keys to its values; "key in item" is key \in DOMAIN item.           *)

TENALI_SYSTEM_PROMPT == "You are FinOS"

\* what generate_llm_narrative of the production engine writes for a symbol
\* (production_historical_data.py 231-236): no 'text' key
ProductionExample ==
  [instruction |-> "Analyze the long-term historical performance of AAPL",
   input       |-> "Sector: Technology",
   output      |-> "narrative",
   system      |-> "You are Tenali"]

\* the shapes of object the collectors leave in the data directory
Items ==
  { ProductionExample,
    [instruction |-> "Explain repo rates", output |-> "answer", text |-> "answer"],
    [instruction |-> "Explain repo rates", text |-> "answer"],
    [text |-> "Apple closed higher", symbol |-> "AAPL"],
    [text |-> "CPI rose", indicator |-> "CPI"],
    [text |-> "Bitcoin fell", coin_id |-> "bitcoin"],
    [text |-> "Rates on hold", topic |-> "Monetary policy"],
    [text |-> "Markets were mixed"],
    [text |-> "", symbol |-> "TCS.NS"],
    [symbol |-> "INFY.NS", close |-> "1500"] }

\* most items load_all_data returns
MaxItems == 2

\* item.get(key, '')
GetOr(item, key) == IF key \in DOMAIN item THEN item[key] ELSE ""

\* lines 79-88
InstructionFor(item) ==
  IF "symbol" \in DOMAIN item THEN "Analyze " \o item["symbol"]
  ELSE IF "indicator" \in DOMAIN item THEN "Explain " \o item["indicator"]
  ELSE IF "coin_id" \in DOMAIN item THEN "Analyze " \o item["coin_id"] \o " cryptocurrency"
  ELSE IF "topic" \in DOMAIN item THEN "Discuss " \o item["topic"]
  ELSE "Provide financial analysis"

\* the test of line 70: items the loop drops before looking at their format
NoText(item) == GetOr(item, "text") = ""

\* one pass of the loop body: what the item adds to instruction_data
Converted(item) ==
  IF NoText(item) THEN <<>>
  ELSE IF "instruction" \in DOMAIN item /\ "output" \in DOMAIN item THEN <<item>>
  ELSE << [instruction |-> InstructionFor(item),
           input       |-> "",
           output      |-> GetOr(item, "text"),
           system      |-> TENALI_SYSTEM_PROMPT] >>

RECURSIVE create_instruction_dataset(_)
create_instruction_dataset(d) ==
  IF d = <<>> THEN <<>>
  ELSE Converted(Head(d)) \o create_instruction_dataset(Tail(d))

ItemLists == UNION { [1..n -> Items] : n \in 0..MaxItems }

\* raw_data = preparator.load_all_data()
prepare_load ==
  /\ ppc = "idle"
  /\ \E d \in ItemLists : data' = d
  /\ ppc' = "loaded"
  /\ UNCHANGED instruction_data
  /\ UNCHANGED <<quoteVars, engineVars, marketVars, runnerVars>>

\* instruction_data = preparator.create_instruction_dataset(raw_data)
prepare_create ==
  /\ ppc = "loaded"
  /\ instruction_data' = create_instruction_dataset(data)
  /\ ppc' = "created"
  /\ UNCHANGED data
  /\ UNCHANGED <<quoteVars, engineVars, marketVars, runnerVars>>

NextPrepare == prepare_load \/ prepare_create

SpecPrepare == Init /\ [][NextPrepare]_vars

---------------------------------------------------------------------------
(* Properties.  They read the directory and the handler's locals in the    *)
(* state get_quote leaves (pc = "responding"); the resolution ran on the   *)
(* directory of that state.                                                *)

Letters == UpperCase \o LowerCase

\* the market markers the specification names
MarketMarkers == {".NS", ".BO", "^", "-", "="}

QueryHasMarker(q) == \E x \in MarketMarkers : Contains(q, x)

AliasesInMap == KeySet(TICKER_MAP)

AliasesInIndex == Range(TICKER_NAMES)

\* q is the start of some alias of TICKER_NAMES
IsPrefixOfAlias(q) == \E k \in AliasesInIndex : StartsWith(k, q)

\* k is similar to q at or above cutoff c.  No ratio exceeds
\* 2*min(len)/(len+len), so the lengths are compared first.
SimilarAtLeast(k, q, c) ==
  2 * Min(Len(k), Len(q)) * c[2] >= c[1] * (Len(k) + Len(q)) /\ RatioGE(Ratio(k, q), c)

\* some alias of TICKER_NAMES is similar to q at or above the cutoff
\* (index.py tries this for queries longer than 2 only)
HasCloseAlias(q) ==
  Len(q) > 2 /\ \E k \in AliasesInIndex : SimilarAtLeast(k, q, Cutoff)

\* q has no exact, prefix or fuzzy alias match in the directory of index.py
UnmatchedQuery(q) ==
  ~HasKey(TICKER_MAP, q) /\ ~IsPrefixOfAlias(q) /\ ~HasCloseAlias(q)

\* the same for deployment/api.py, which has no prefix stage, checks the
\* crypto shorthands first and uses cutoff 0.4
ApiUnmatchedQuery(q) ==
  /\ q \notin CryptoShorthands
  /\ ~HasKey(TICKER_MAP, q)
  /\ ~(Len(q) > 2 /\ \E k \in AliasesInIndex : SimilarAtLeast(k, q, ApiCutoff))

\* position in TICKER_NAMES of the shortest alias starting with q, the first
\* of them in list order when several have that length
ShortestPrefixed(q) ==
  CHOOSE i \in 1..Len(TICKER_NAMES) :
    /\ StartsWith(TICKER_NAMES[i], q)
    /\ \A h \in 1..Len(TICKER_NAMES) :
         StartsWith(TICKER_NAMES[h], q) =>
           \/ Len(TICKER_NAMES[i]) < Len(TICKER_NAMES[h])
           \/ Len(TICKER_NAMES[i]) = Len(TICKER_NAMES[h]) /\ i <= h

\* the symbol the resolution steps of index.py give for s on the current
\* directory when the probe, if issued, ends as p
ResolveAgain(s, p) ==
  SuffixLogic(MatchAlias(TICKER_MAP, TICKER_NAMES, Normalize(s)).symbol, p).symbol

\* the last load_ticker_map call ended without finishing the listing
LoadFailed == loadResult \in {"exception", "non200"}

\* C1: a query that is a key of TICKER_MAP resolves to exactly TICKER_MAP[query],
\* whatever the verification probe answers.  (Fails: step 3 still runs on the
\* mapped symbol and appends ".NS" to AAPL when the probe gives no price.)
C1_ExactAliasWins ==
  (pc = "responding" /\ HasKey(TICKER_MAP, query)) => symbol = Get(TICKER_MAP, query)

\* C2: for every query, directory and probe outcome the resolution steps end
\* without raising and give a non-empty symbol.
C2_ResolutionTotal ==
  pc = "responding" => (~raised /\ symbol # "")

\* C2 witness: the probe raised and the steps still produced a symbol
C2_Witness ==
  pc = "responding" /\ raw # "" /\ probe = "exception" /\ ~raised /\ symbol # ""

\* C3: a resolution sees either the complete alias set from before the last
\* rebuild or the complete alias set of a finished rebuild, in TICKER_MAP and
\* in TICKER_NAMES alike.  (Fails: a rebuild that raises on a later row leaves
\* the earlier rows' aliases in TICKER_MAP.)
C3_RebuildAtomicForReaders ==
  pc = "responding" =>
    \/ AliasesInMap = KeySet(preMap) /\ AliasesInIndex = Range(preNames)
    \/ loadResult = "loaded" /\ AliasesInIndex = AliasesInMap

\* C4: a query that is no alias but the start of aliases resolves to the
\* symbol mapped to the shortest such alias, the first in TICKER_NAMES order
\* among equally short ones.  (Fails for the reason C1 fails.)
C4_ShortestPrefixWins ==
  ( /\ pc = "responding"
    /\ query # ""
    /\ ~HasKey(TICKER_MAP, query)
    /\ IsPrefixOfAlias(query) ) =>
    symbol = Get(TICKER_MAP, TICKER_NAMES[ShortestPrefixed(query)])

\* C5: a query with a market marker (".NS", ".BO", "^", "-", "=") and no alias
\* match comes back unchanged, without a probe.  (Fails in deployment/api.py,
\* whose step 4 does not know "=" and wants ".NS"/".BO" at the end.)
C5_MarkedQueryUnchanged ==
  (pc = "responding" /\ QueryHasMarker(query) /\ ApiUnmatchedQuery(query)) =>
    (symbol = query /\ probe = "notissued")

\* C6: an unmatched alphabetic query of at most 5 characters whose probe gives
\* no price or raises resolves to query + ".NS", and nothing is raised.
C6_FailedProbeAppendsNS ==
  ( /\ pc = "responding"
    /\ IsAlpha(query)
    /\ Len(query) <= 5
    /\ UnmatchedQuery(query) ) =>
      /\ probe \in ProbeOutcomes
      /\ probe \in {"noprice", "exception"} => (symbol = query \o ".NS" /\ ~raised)

\* C6 witness: such a query whose probe raised
C6_Witness ==
  /\ pc = "responding"
  /\ UnmatchedQuery(query)
  /\ IsAlpha(query)
  /\ Len(query) <= 5
  /\ probe = "exception"
  /\ symbol = query \o ".NS"

\* C7: an unmatched query without marker that is longer than 5 characters or
\* holds a non-letter resolves to query + ".NS" and no probe is issued.
C7_LongOrNonAlphaAppendsNS ==
  ( /\ pc = "responding"
    /\ ~QueryHasMarker(query)
    /\ \/ Len(query) > 5
       \/ \E i \in 1..Len(query) : ~Contains(Letters, Char(query, i))
    /\ UnmatchedQuery(query) ) =>
      (symbol = query \o ".NS" /\ probe = "notissued")

\* C7 witness: a short query with a digit, resolved without a probe
C7_Witness ==
  /\ pc = "responding"
  /\ UnmatchedQuery(query)
  /\ ~QueryHasMarker(query)
  /\ Len(query) <= 5
  /\ \E i \in 1..Len(query) : ~Contains(Letters, Char(query, i))
  /\ symbol = query \o ".NS"
  /\ probe = "notissued"

\* C8 as claimed: every query with a market marker resolves to itself, and so
\* does the result, whatever the directory holds.  (Fails: "^NSEI" is close
\* enough to the alias "SBI".)
C8_MarkedQueryIdempotent ==
  (pc = "responding" /\ QueryHasMarker(query)) =>
    (symbol = query /\ \A p \in ProbeOutcomes : ResolveAgain(symbol, p) = query)

\* C8 amended: every query with a market marker and without exact, prefix or
\* fuzzy alias match resolves to itself, and so does the result.
C8_UnmatchedMarkedQueryIdempotent ==
  (pc = "responding" /\ QueryHasMarker(query) /\ UnmatchedQuery(query)) =>
    (symbol = query /\ \A p \in ProbeOutcomes : ResolveAgain(symbol, p) = query)

\* C8 witness: an unmatched query marked by "=" came back unchanged
C8_Witness ==
  /\ pc = "responding"
  /\ Contains(query, "=")
  /\ UnmatchedQuery(query)
  /\ symbol = query

\* C9: after a load_ticker_map call that failed, TICKER_MAP and TICKER_NAMES
\* are what they were before the call.  (Fails: rows before the raising one
\* stay written.)
C9_FailedLoadKeepsDirectory ==
  LoadFailed => (TICKER_MAP = preMap /\ TICKER_NAMES = preNames)

\* C10: the load_ticker_map call after a failed one fetches the listing again.
\* (Fails: rows written before the failure make the size test skip it.)
C10_FailedLoadIsRetried ==
  [][(LoadFailed /\ pc = "serving" /\ pc' = "responding") => loadResult' # "skipped"]_vars

\* C11: whenever a resolution can read the directory, TICKER_NAMES holds
\* exactly the keys of TICKER_MAP, also after a load that ended in an
\* exception.  (Fails: the rows before a raising one are in TICKER_MAP, and
\* TICKER_NAMES is assigned only after the loop.)
C11_NamesAreTheKeys ==
  pc \in {"serving", "responding"} => AliasesInIndex = AliasesInMap

\* the crypto shorthands the specification names
WellKnownShorthands == {"BTC", "ETH", "SOL", "ADA", "XRP", "DOGE"}

\* what deployment/api.py, which tests the shorthands before the directory,
\* gives for q on the current directory
ResolveByApi(q) == ApiSuffixLogic(ApiMatchAlias(TICKER_MAP, TICKER_NAMES, q).symbol).symbol

\* C12: a crypto shorthand resolves to <TOKEN>-USD whatever the listing
\* holds, and seeding the shorthands into the directory (index.py) gives what
\* testing them before the directory (deployment/api.py) gives.  (Fails in
\* index.py: a listing row whose SYMBOL is SOL overwrites the seeded alias.)
C12_ShorthandAlwaysUSD ==
  (pc = "responding" /\ query \in WellKnownShorthands) =>
    (symbol = query \o "-USD" /\ symbol = ResolveByApi(query))

\* the aliases a listing row names with the row's symbol: its SYMBOL, its
\* company name and (longer than 2 characters) the first word of that name
SourcesOf(row) ==
  LET sym == row.SYMBOL \o ".NS"
      name == Upper(row.NAME)
  IN << <<Upper(row.SYMBOL), sym>>, <<name, sym>> >>
     \o (IF Len(SplitFirst(name)) > 2 THEN << <<SplitFirst(name), sym>> >> ELSE <<>>)

RECURSIVE ClaimedWrites(_)
\* every source of every row, in listing order, taken as a write
ClaimedWrites(rows) ==
  IF rows = <<>> THEN <<>> ELSE SourcesOf(Head(rows)) \o ClaimedWrites(Tail(rows))

\* a row's sources without the first word when an earlier write holds that alias
EffectiveSources(writes, src) ==
  IF Len(src) = 3 /\ \E i \in 1..Len(writes \o SubSeq(src, 1, 2)) :
                        (writes \o SubSeq(src, 1, 2))[i][1] = src[3][1]
  THEN SubSeq(src, 1, 2)
  ELSE src

RECURSIVE GuardedWrites(_, _)
\* the writes in listing order when a first word is written only to an alias
\* no earlier write holds
GuardedWrites(writes, rows) ==
  IF rows = <<>> THEN writes
  ELSE GuardedWrites(writes \o EffectiveSources(writes, SourcesOf(Head(rows))), Tail(rows))

\* the symbol of the last write to alias a
LastWrite(writes, a) == writes[SetMax({i \in 1..Len(writes) : writes[i][1] = a})][2]

KeysUnique(map) == \A i, j \in 1..Len(map) : map[i][1] = map[j][1] => i = j

\* the load_ticker_map call of this request went through the whole listing
LoadCompleted == pc = "responding" /\ loadResult = "loaded"

\* C13 as claimed: after a completed load every alias has one symbol, the one
\* of the last source naming it in listing order, first words included.
\* (Fails: a first word never replaces an alias that is already there.)
C13_LastSourceWins ==
  LoadCompleted =>
    /\ KeysUnique(TICKER_MAP)
    /\ LET writes == preMap \o ClaimedWrites(fetched.rows)
       IN \A i \in 1..Len(TICKER_MAP) :
            TICKER_MAP[i][2] = LastWrite(writes, TICKER_MAP[i][1])

\* C13 amended: after a completed load every alias has one symbol, the one of
\* the last write to it in listing order, where a row's first word is written
\* only when the alias is not in the directory yet.
C13_LastWriteWins ==
  LoadCompleted =>
    /\ KeysUnique(TICKER_MAP)
    /\ LET writes == GuardedWrites(preMap, fetched.rows)
       IN \A i \in 1..Len(TICKER_MAP) :
            TICKER_MAP[i][2] = LastWrite(writes, TICKER_MAP[i][1])

\* C13 witness: a completed load in which a row's SYMBOL replaced a seeded
\* alias and a later row's first word did not replace another
C13_Witness ==
  /\ LoadCompleted
  /\ Len(fetched.rows) = 2
  /\ fetched.rows[1].SYMBOL = "SOL"
  /\ fetched.rows[2].SYMBOL = "HDFCLIFE"
  /\ Get(TICKER_MAP, "SOL") = "SOL.NS"
  /\ Get(TICKER_MAP, "HDFC") = "HDFCBANK.NS"

\* what one load_ticker_map call alone, on the directory the module starts
\* with, makes of the download f
SingleRun(f) == load_ticker_map(STATIC_TICKER_MAP, Keys(STATIC_TICKER_MAP), f)

\* C14: after a load_ticker_map call that downloaded the listing, the
\* directory is what that call alone would have produced, whatever earlier
\* calls did.  (Fails: the call writes into the dict the earlier calls
\* wrote into, so their entries stay.)
C14_LaterRebuildWins ==
  (pc = "responding" /\ fetched # NoFetch) =>
    /\ TICKER_MAP = SingleRun(fetched).map
    /\ TICKER_NAMES = SingleRun(fetched).names

\* the directory holds more entries than the static seed map
BeyondSeed == Cardinality(AliasesInMap) > Cardinality(KeySet(STATIC_TICKER_MAP))

\* C15: over a quote request the directory changes only by what the
\* load_ticker_map call of the request does to it, and not at all once it
\* holds more entries than the static seed map.
C15_OnlyLazyLoadMutates ==
  [][(pc = "serving" /\ pc' = "responding") =>
       /\ BeyondSeed => UNCHANGED <<TICKER_MAP, TICKER_NAMES>>
       /\ LET ld == load_ticker_map(TICKER_MAP, TICKER_NAMES, fetched')
          IN TICKER_MAP' = ld.map /\ TICKER_NAMES' = ld.names]_vars

\* C15 witness: a request resolved by a fuzzy match on a directory grown
\* beyond the seed, which it left as it was
C15_Witness ==
  /\ pc = "responding"
  /\ BeyondSeed
  /\ stage = "fuzzy"
  /\ loadResult = "skipped"
  /\ TICKER_MAP = preMap
  /\ TICKER_NAMES = preNames

\* C16: a symbol in the progress file loaded at a start-up is not passed to
\* fetch_history in that run or in any later one.
C16_ProcessedNeverFetchedAgain ==
  fetchedInRun \cap startProgress = {}

\* C16 witness: the second run has visited a symbol while the progress file
\* its start-up loaded lists another
C16_Witness ==
  /\ runs = 2
  /\ startProgress # {}
  /\ fetchedInRun # {}

\* the cache the last call met was younger than 300 seconds and not empty
MetFreshCache == calledAt - cacheBefore.timestamp < 300 /\ cacheBefore.data # ""

\* C17: a get_market_context call less than 300 seconds after the last cache
\* update, with cached data, returns the cached string without fetching and
\* leaves market_cache as it was; any other call goes on to the refresh.
C17_FiveMinuteTTL ==
  called # "none" =>
    IF MetFreshCache
    THEN called = "cached" /\ context = cacheBefore.data /\ market_cache = cacheBefore
    ELSE called \in {"refreshed", "stale"}

\* C17 witness: a call 240 seconds after the update was answered from the
\* cache
C17_Witness ==
  /\ called = "cached"
  /\ calledAt - cacheBefore.timestamp = 240
  /\ context = cacheBefore.data
  /\ context # ""

\* C18: a refresh in which every ticker fetch raised returns the string that
\* was cached before and leaves market_cache's data and timestamp as they
\* were.  (Fails: each fetch's exception is swallowed inside the loop, and the
\* date line alone is stored and returned.)
C18_FailedFetchKeepsCache ==
  (called = "refreshed" /\ hists = <<"raise", "raise", "raise">> /\ cacheBefore.data # "") =>
    (context = cacheBefore.data /\ market_cache = cacheBefore)

\* symbol is a symbol of the directory
IsDirectorySymbol(sym) == \E i \in 1..Len(TICKER_MAP) : TICKER_MAP[i][2] = sym

\* C19: a symbol the exact, prefix or fuzzy stage took from the directory is
\* the result as it stands: the suffix stage does not run on it and no
\* verification probe is issued for it.  (Fails for the reason C1 fails.)
C19_SuffixStageOnlyWhenUnmatched ==
  ( /\ pc = "responding"
    /\ query # ""
    /\ HasKey(TICKER_MAP, query) \/ IsPrefixOfAlias(query) \/ HasCloseAlias(query) ) =>
    (probe = "notissued" /\ IsDirectorySymbol(symbol))

\* position in TICKER_NAMES of the alias most similar to q, the first of them
\* in list order when several are equally similar
FirstMostSimilar(q) ==
  LET r == [i \in 1..Len(TICKER_NAMES) |-> Ratio(TICKER_NAMES[i], q)]
  IN CHOOSE i \in 1..Len(TICKER_NAMES) :
       \A h \in 1..Len(TICKER_NAMES) :
          /\ RatioGE(r[i], r[h])
          /\ RatioEq(r[i], r[h]) => i <= h

\* C20: a query resolved by the fuzzy stage gets the symbol of the alias most
\* similar to it, the first in TICKER_NAMES order among equally similar ones.
\* Stated for the requests whose symbol the suffix stage left alone (see C1).
\* (Fails: of equally similar aliases the code takes the greatest string.)
C20_FuzzyTieKeepsFirst ==
  ( /\ pc = "responding"
    /\ ~HasKey(TICKER_MAP, query)
    /\ ~IsPrefixOfAlias(query)
    /\ HasCloseAlias(query)
    /\ probe \in {"notissued", "price"} ) =>
    symbol = Get(TICKER_MAP, TICKER_NAMES[FirstMostSimilar(query)])

\* what suffix inference alone makes of q when the probe, if one is due, ends
\* as p: q itself with a market marker or a price, q + ".NS" otherwise
SuffixInferred(q, p) ==
  IF QueryHasMarker(q) THEN q
  ELSE IF Len(q) <= 5 /\ (\A i \in 1..Len(q) : Contains(Letters, Char(q, i))) /\ p = "price" THEN q
  ELSE q \o ".NS"

\* C21: a query of 1 or 2 characters that is no alias and no start of an
\* alias is resolved by suffix inference alone, however similar an alias is.
C21_ShortQuerySkipsFuzzy ==
  ( /\ pc = "responding"
    /\ Len(query) \in {1, 2}
    /\ ~HasKey(TICKER_MAP, query)
    /\ ~IsPrefixOfAlias(query) ) =>
    (stage = "none" /\ symbol = SuffixInferred(query, probe))

\* C21 witness: a 2-character query with an alias similar at or above the
\* cutoff, resolved without it
C21_Witness ==
  /\ pc = "responding"
  /\ Len(query) = 2
  /\ ~IsPrefixOfAlias(query)
  /\ \E k \in AliasesInIndex : SimilarAtLeast(k, query, Cutoff)
  /\ stage = "none"
  /\ symbol = query \o ".NS"

\* the steps were started one after the other, in the order of the list
StartedInOrder == \A i, j \in 1..Len(launched) : i < j => launched[i] < launched[j]

\* every step was started when no earlier step's process was still alive
StartedAfterExit == overlapped = {}

\* C22: in train_tenali.main the steps are launched in order (preparation,
\* continued pre-training, fine-tuning), each only after the previous step's
\* process has exited; a failed preparation aborts (fine-tuning never starts), a
\* failed continued pre-training does not; the finished message is reached only
\* if neither preparation nor fine-tuning failed.
C22_PipelineInOrder ==
  program = "train_tenali" =>
    /\ StartedInOrder
    /\ StartedAfterExit
    /\ results[1] = "failed" => (rpc = "aborted" /\ step = 1)
    /\ rpc = "aborted" => \E k \in AbortsOnFailure : k = step /\ results[k] = "failed"
    /\ rpc = "finished" => (results[1] # "failed" /\ results[3] # "failed")

\* the decisions of main() alone: what C22 says without "only after the
\* previous step's process has exited"
C22_AbortLogic ==
  program = "train_tenali" =>
    /\ StartedInOrder
    /\ results[1] = "failed" => (rpc = "aborted" /\ step = 1)
    /\ rpc = "aborted" => \E k \in AbortsOnFailure : k = step /\ results[k] = "failed"
    /\ rpc = "finished" => (results[1] # "failed" /\ results[3] # "failed")

\* C23: run_supplementary starts each of the four collectors exactly once, in
\* order, each only after the previous one's process has exited; a non-zero exit
\* or a launch error of one never prevents the later ones from running.
C23_CollectorsInSequence ==
  program = "run_supplementary" =>
    /\ StartedInOrder
    /\ StartedAfterExit
    /\ rpc # "aborted"
    /\ rpc = "finished" => \A k \in 1..Len(scripts) : results[k] \in {"ok", "failed"}

\* already in instruction format, as the production pipeline writes it
InstructionFormat(item) == "instruction" \in DOMAIN item /\ "output" \in DOMAIN item

\* C24: create_instruction_dataset passes through unchanged every input item
\* that already has both 'instruction' and 'output' keys: each such item
\* appears in the returned dataset.
C24_InstructionItemsPassThrough ==
  ppc = "created" =>
    \A i \in 1..Len(data) :
      InstructionFormat(data[i]) =>
        \E j \in 1..Len(instruction_data) : instruction_data[j] = data[i]

\* the symbols run() has processed that the progress file does not list yet
Unsaved == processed_symbols \ progressFile

\* C25: during run(), at no point does the number of symbols processed since
\* the last save_progress exceed BATCH_SIZE, whatever mix of symbols succeed,
\* fail to fetch or are skipped for short history.
C25_ProgressSavedEveryBatch ==
  (epc \in {"loop", "batch", "batch_saved", "final", "final_saved", "done"}
     /\ progressFile # Torn) =>
    Cardinality(Unsaved) <= BATCH_SIZE

\* C26: when run() completes normally the progress file contains every symbol
\* processed during that run, also when the last symbols processed yielded no
\* training example.
C26_CompletedRunIsRecorded ==
  epc = "done" => (progressFile # Torn /\ fetchedInRun \subseteq progressFile)

\* C27: across any sequence of runs, with a crash possible at any step, no
\* symbol's training example is in the output corpus more than once (a restart
\* never reprocesses a symbol whose example save_batch has written).
C27_NoExampleTwice ==
  \A i, j \in 1..Len(corpusFile) : i # j => corpusFile[i] # corpusFile[j]

\* the parent is inside run_step / run_script
InRunStep == rpc \in {"popen", "stream", "wait"}

\* the parent waits for a stdout line or end-of-file while the child, with
\* nothing left for stdout, waits for room in the stderr pipe
PipeDeadlock ==
  /\ rpc = "stream"
  /\ cstate = "running"
  /\ outLeft = 0
  /\ errLeft > 0
  /\ ~ChildMayWrite

\* C28: run_step / run_script eventually returns for every child that exits
\* once its output is consumed: parent and child never end up blocked forever,
\* the one reading stdout, the other writing to a full stderr pipe.
C28_RunStepReturns == InRunStep ~> ~InRunStep

====
